---- MODULE Spec2Model ----
(***************************************************************************)
(* Model of two_pass_ocr.py: a layout OCR pass, one picture-grounded OCR   *)
(* pass per picture block, the merge of the returned children into the     *)
(* block list, the save of the merged list and the copy of the first-pass  *)
(* artifacts.                                                              *)
(*                                                                         *)
(* JSON values are tagged tuples (Str, Num, List, Null) so that values of  *)
(* different JSON types can be compared; a JSON object is a function from  *)
(* its keys to JSON values; the top-level lists (blocks, children) are     *)
(* sequences.                                                              *)
(***************************************************************************)
EXTENDS Integers, Sequences, FiniteSets, TLC

VARIABLES
    pc,             \* position of main()
    calls,          \* external invocations made so far, in order
    resultJson,     \* <output>/first_pass/result.json
    firstPassFiles, \* artifacts present in <output>/first_pass
    firstPass,      \* the block list as loaded from the first pass
    blocks,         \* the in-memory block list, mutated in place
    idx,            \* loop position of attach_picture_children
    picDir,         \* <image-parent>/_picture_temp
    picDir0,        \* _picture_temp as it was before the run
    secondPass,     \* per block: what load_json returned for it
    rmFailed,       \* did the most recent shutil.rmtree fail (ignored)
    removals,       \* number of shutil.rmtree calls made
    outJson,        \* <output>/<image-stem>.json as written by this run
    saves,          \* number of times the final JSON was written
    copyIdx,        \* position in the (".md", ".jpg") loop
    copied,         \* artifacts copied into <output>
    exitCode        \* process outcome

vars == <<pc, calls, resultJson, firstPassFiles, firstPass, blocks, idx,
          picDir, picDir0, secondPass, rmFailed, removals, outJson, saves,
          copyIdx, copied, exitCode>>

----------------------------------------------------------------------------
(* Bounds *)

\* blocks returned by the layout pass
MaxBlocks == 2
\* children returned by the second passes of one run, all blocks together
MaxChildren == 2

----------------------------------------------------------------------------
(* JSON values *)

Null == <<"null">>
Str(s) == <<"str", s>>
Num(n) == <<"num", n>>
List(s) == <<"list", s>>

Has(d, k) == k \in DOMAIN d

\* dict.get(k): the value, or None
Get(d, k) == IF Has(d, k) THEN d[k] ELSE Null

\* d[k] = v on a dict: adds the key or replaces its value
SetKey(d, k, v) == [x \in (DOMAIN d) \cup {k} |-> IF x = k THEN v ELSE d[x]]

----------------------------------------------------------------------------
(* Names used by the program *)

Image == "page1.png"
FirstPassDir == "out/first_pass"
PicDirName == "_picture_temp"
FirstPassArgs == <<"--mode", "layout_all">>
Exts == <<".md", ".jpg">>

----------------------------------------------------------------------------
(* Inputs: what the external OCR program can return *)

BlockKinds ==
    << [category |-> Str("Text"), bbox |-> List(<<0, 0, 100, 20>>),
        text |-> Str("Hello")],
       [category |-> Str("Picture"), bbox |-> List(<<0, 30, 200, 230>>)],
       [category |-> Str("Picture"), text |-> Str("nobox")],
       ("picture-children" :> List(<<[text |-> Str("old")]>>)) @@
       [category |-> Str("Picture"), bbox |-> List(<<5, 5, 50, 50>>),
        conf |-> Num(7)],
       ("picture-children" :> List(<<[text |-> Str("kept")]>>)) @@
       [bbox |-> List(<<1, 2, 3, 4>>)] >>

ChildKinds ==
    << [bbox |-> List(<<10, 40, 90, 60>>), text |-> Str("Caption"),
        conf |-> Num(9)],
       [bbox |-> List(<<6, 6, 9, 9>>), text |-> Str("Fig"),
        category |-> Str("Text"), extra |-> Num(1)] >>

SeqsOver(kinds, n) ==
    UNION { { [i \in 1..m |-> kinds[f[i]]] : f \in [1..m -> 1..Len(kinds)] }
            : m \in 0..n }

BlockLists == SeqsOver(BlockKinds, MaxBlocks)
ChildLists == SeqsOver(ChildKinds, MaxChildren)

Absent == <<"absent">>
EmptyDir == <<"empty">>
StaleDir == <<"result", 0, <<ChildKinds[1]>>>>

----------------------------------------------------------------------------
(* attach_picture_children, pure parts *)

\* variant: the category test is forgotten
SkipBlockNoCategory(block) == ~Has(block, "bbox")

\* line 46: the condition under which a block is left alone
SkipBlock(block) ==
    Get(block, "category") # Str("Picture") \/ ~Has(block, "bbox")

\* variant: the numbers are joined with a blank
RECURSIVE JoinBlank(_)
JoinBlank(s) ==
    IF Len(s) = 0 THEN ""
    ELSE IF Len(s) = 1 THEN ToString(s[1])
    ELSE ToString(s[1]) \o " " \o JoinBlank(Tail(s))

\* str(n) for the numbers of a bbox, joined with ","
RECURSIVE JoinComma(_)
JoinComma(s) ==
    IF Len(s) = 0 THEN ""
    ELSE IF Len(s) = 1 THEN ToString(s[1])
    ELSE ToString(s[1]) \o "," \o JoinComma(Tail(s))

\* lines 48-49
BboxArg(block) == JoinComma(block["bbox"][2])

\* line 52
PictureArgs(block) ==
    <<"--mode", "prompt_grounding_ocr", "--bbox", BboxArg(block)>>

\* variant: the returned child is kept whole and only tagged
MakeChildKeepAll(c) ==
    SetKey(SetKey(SetKey(SetKey(SetKey(c, "bbox", Get(c, "bbox")),
                                "text", Get(c, "text")),
                         "conf", Get(c, "conf")),
                  "category", Str("PictureText")),
           "source", Str("picture-ocr"))

\* lines 57-63
MakeChild(c) ==
    [bbox |-> Get(c, "bbox"), text |-> Get(c, "text"),
     conf |-> Get(c, "conf"), category |-> Str("PictureText"),
     source |-> Str("picture-ocr")]

\* lines 56-65: the list comprehension
BuildChildren(children) ==
    [i \in 1..Len(children) |-> MakeChild(children[i])]

\* line 55: truth value of a list
Truthy(children) == Len(children) > 0

\* variant: the key is written even for an empty result
AttachAlways(block, children) ==
    SetKey(block, "picture-children", List(BuildChildren(children)))

\* variant: an empty result drops an existing key
AttachOrDrop(block, children) ==
    IF Truthy(children)
    THEN SetKey(block, "picture-children", List(BuildChildren(children)))
    ELSE [k \in (DOMAIN block) \ {"picture-children"} |-> block[k]]

\* lines 55-65
Attach(block, children) ==
    IF Truthy(children)
    THEN SetKey(block, "picture-children", List(BuildChildren(children)))
    ELSE block

----------------------------------------------------------------------------
(* Filesystem and process helpers *)

\* output_dir.mkdir(parents=True, exist_ok=True)
Mkdir(dir) == IF dir = Absent THEN EmptyDir ELSE dir

\* variant: the removal only empties the directory
RmtreeKeepDir(dir, ok) == IF ok THEN EmptyDir ELSE dir

\* variant: the removal leaves the result file behind
RmtreeKeepFile(dir, ok) == dir

\* shutil.rmtree(pic_dir, ignore_errors=True); ok is whether removal worked
Rmtree(dir, ok) == IF ok THEN Absent ELSE dir

\* variant: check=False, the status is ignored
CheckNever(status) == FALSE

\* subprocess.run(cmd, check=True) raises on a non-zero status
CheckFails(status) == status # 0

\* variant: the existence test is dropped
SrcAlways(ext, files) == TRUE

\* src.exists()
SrcExists(ext, files) == ext \in files

Call(dir, args) ==
    [image |-> Image, output |-> dir, args |-> args, status |-> <<"running">>]

\* the last invocation has exited with this status
Finished(cs, status) == [cs EXCEPT ![Len(cs)].status = <<"exit", status>>]

----------------------------------------------------------------------------

Init ==
    /\ pc = "main"
    /\ calls = <<>>
    /\ resultJson = <<"missing">>
    /\ firstPassFiles = {}
    /\ firstPass = <<>>
    /\ blocks = <<>>
    /\ idx = 0
    /\ picDir \in {Absent, StaleDir}
    /\ picDir0 = picDir
    /\ secondPass = <<>>
    /\ rmFailed = FALSE
    /\ removals = 0
    /\ outJson = <<"none">>
    /\ saves = 0
    /\ copyIdx = 0
    /\ copied = {}
    /\ exitCode = "running"

\* main line 82, run_dots_ocr lines 27-29: the layout pass is launched
FirstPassStart ==
    /\ pc = "main"
    /\ calls' = Append(calls, Call(FirstPassDir, FirstPassArgs))
    /\ pc' = "first_wait"
    /\ UNCHANGED <<resultJson, firstPassFiles, firstPass, blocks, idx, picDir,
                   picDir0, secondPass, rmFailed, removals, outJson, saves, copyIdx,
                   copied, exitCode>>

\* run_dots_ocr line 29: the layout pass exits
FirstPassExit ==
    /\ pc = "first_wait"
    /\ \E status \in {0, 1} :
        IF CheckFails(status)
        THEN /\ calls' = Finished(calls, status)
             /\ pc' = "failed"
             /\ exitCode' = "error"
             /\ UNCHANGED <<resultJson, firstPassFiles>>
        ELSE /\ calls' = Finished(calls, status)
             /\ pc' = "load_first"
             /\ \E out \in {<<"missing">>, <<"invalid">>}
                          \cup {<<"json", bs>> : bs \in BlockLists} :
                    resultJson' = out
             /\ firstPassFiles' \in SUBSET {Exts[1], Exts[2]}
             /\ UNCHANGED exitCode
    /\ UNCHANGED <<firstPass, blocks, idx, picDir, picDir0, secondPass,
                   rmFailed, removals, outJson, saves, copyIdx, copied>>

\* main line 83: load_json of the first-pass result
LoadFirstPass ==
    /\ pc = "load_first"
    /\ IF resultJson[1] = "json"
       THEN /\ firstPass' = resultJson[2]
            /\ blocks' = resultJson[2]
            /\ secondPass' = [i \in 1..Len(resultJson[2]) |-> <<"none">>]
            /\ idx' = 1
            /\ pc' = "loop"
            /\ UNCHANGED exitCode
       ELSE /\ pc' = "failed"
            /\ exitCode' = "error"
            /\ UNCHANGED <<firstPass, blocks, secondPass, idx>>
    /\ UNCHANGED <<calls, resultJson, firstPassFiles, picDir, picDir0,
                   rmFailed, removals, outJson, saves, copyIdx, copied>>

\* lines 45-47: a block that is not a picture with a bbox is passed over
LoopSkip ==
    /\ pc = "loop"
    /\ idx <= Len(blocks)
    /\ SkipBlock(blocks[idx])
    /\ idx' = idx + 1
    /\ UNCHANGED <<pc, calls, resultJson, firstPassFiles, firstPass, blocks,
                   picDir, picDir0, secondPass, rmFailed, removals, outJson, saves,
                   copyIdx, copied, exitCode>>

\* lines 48-53, run_dots_ocr lines 27-29: the second pass is launched
PictureStart ==
    /\ pc = "loop"
    /\ idx <= Len(blocks)
    /\ ~SkipBlock(blocks[idx])
    /\ picDir' = Mkdir(picDir)
    /\ calls' = Append(calls, Call(PicDirName, PictureArgs(blocks[idx])))
    /\ pc' = "pic_wait"
    /\ UNCHANGED <<resultJson, firstPassFiles, firstPass, blocks, idx,
                   picDir0, secondPass, rmFailed, removals, outJson, saves, copyIdx,
                   copied, exitCode>>

\* children written so far by the second passes of blocks 1..n
RECURSIVE ChildrenWritten(_)
ChildrenWritten(n) ==
    IF n = 0 THEN 0
    ELSE ChildrenWritten(n - 1) +
         (IF secondPass[n][1] = "loaded" /\ secondPass[n][2] = n
          THEN Len(secondPass[n][3]) ELSE 0)

\* run_dots_ocr line 29: the second pass exits; on success it has written
\* a result.json, an unreadable one, or none
PictureExit ==
    /\ pc = "pic_wait"
    /\ \E status \in {0, 1} :
        IF CheckFails(status)
        THEN /\ calls' = Finished(calls, status)
             /\ pc' = "failed"
             /\ exitCode' = "error"
             /\ UNCHANGED picDir
        ELSE /\ calls' = Finished(calls, status)
             /\ pc' = "load_children"
             /\ \E w \in {picDir, <<"invalid">>}
                        \cup {<<"result", idx, cs>> : cs \in
                                { l \in ChildLists :
                                    Len(l) + ChildrenWritten(idx - 1)
                                      <= MaxChildren }} :
                    picDir' = w
             /\ UNCHANGED exitCode
    /\ UNCHANGED <<resultJson, firstPassFiles, firstPass, blocks, idx,
                   picDir0, secondPass, rmFailed, removals, outJson, saves, copyIdx,
                   copied>>

\* lines 54-65: load the children and attach them
LoadChildren ==
    /\ pc = "load_children"
    /\ IF picDir[1] = "result"
       THEN /\ blocks' = [blocks EXCEPT ![idx] = Attach(@, picDir[3])]
            /\ secondPass' = [secondPass EXCEPT ![idx] =
                                <<"loaded", picDir[2], picDir[3]>>]
            /\ pc' = "rmtree"
            /\ UNCHANGED exitCode
       ELSE /\ pc' = "failed"
            /\ exitCode' = "error"
            /\ UNCHANGED <<blocks, secondPass>>
    /\ UNCHANGED <<calls, resultJson, firstPassFiles, firstPass, idx, picDir,
                   picDir0, rmFailed, removals, outJson, saves, copyIdx, copied>>

\* line 66: best-effort removal, then the next block
RemoveTemp ==
    /\ pc = "rmtree"
    /\ \E ok \in BOOLEAN :
        /\ picDir' = Rmtree(picDir, ok)
        /\ rmFailed' = ~ok
    /\ removals' = removals + 1
    /\ idx' = idx + 1
    /\ pc' = "loop"
    /\ UNCHANGED <<calls, resultJson, firstPassFiles, firstPass, blocks,
                   picDir0, secondPass, outJson, saves, copyIdx, copied,
                   exitCode>>

\* main lines 87-88: the loop is over, the merged list is saved
SaveJson ==
    /\ pc = "loop"
    /\ idx > Len(blocks)
    /\ outJson' = <<"json", blocks>>
    /\ saves' = saves + 1
    /\ copyIdx' = 1
    /\ pc' = "copy"
    /\ UNCHANGED <<calls, resultJson, firstPassFiles, firstPass, blocks, idx,
                   picDir, picDir0, secondPass, rmFailed, removals, copied, exitCode>>

\* main lines 91-94: one artifact
CopyArtifact ==
    /\ pc = "copy"
    /\ copyIdx <= Len(Exts)
    /\ copied' = IF SrcExists(Exts[copyIdx], firstPassFiles)
                 THEN copied \cup {Exts[copyIdx]}
                 ELSE copied
    /\ copyIdx' = copyIdx + 1
    /\ UNCHANGED <<pc, calls, resultJson, firstPassFiles, firstPass, blocks,
                   idx, picDir, picDir0, secondPass, rmFailed, removals, outJson, saves,
                   exitCode>>

\* main returns
Finish ==
    /\ pc = "copy"
    /\ copyIdx > Len(Exts)
    /\ pc' = "done"
    /\ exitCode' = "ok"
    /\ UNCHANGED <<calls, resultJson, firstPassFiles, firstPass, blocks, idx,
                   picDir, picDir0, secondPass, rmFailed, removals, outJson, saves,
                   copyIdx, copied>>

Next ==
    \/ FirstPassStart
    \/ FirstPassExit
    \/ LoadFirstPass
    \/ LoopSkip
    \/ PictureStart
    \/ PictureExit
    \/ LoadChildren
    \/ RemoveTemp
    \/ SaveJson
    \/ CopyArtifact
    \/ Finish

Spec == Init /\ [][Next]_vars

----------------------------------------------------------------------------
(* Vocabulary of the properties, spelled out on the data itself *)

PC == "picture-children"

Saved == outJson[1] = "json"
Output == outJson[2]

\* a first-pass block that is a picture with a bbox
IsPictureBlock(b) ==
    /\ "category" \in DOMAIN b
    /\ b["category"] = <<"str", "Picture">>
    /\ "bbox" \in DOMAIN b

Loaded(i) == secondPass[i][1] = "loaded"
Returned(i) == secondPass[i][3]

PictureIdx == { i \in 1..Len(firstPass) : IsPictureBlock(firstPass[i]) }

\* the picture blocks among the first n blocks
PicturesUpTo(n) == { i \in PictureIdx : i <= n }

\* the k-th smallest element of a set of indices
KthOf(S, k) == CHOOSE i \in S : Cardinality({ j \in S : j <= i }) = k

\* the --bbox argument each picture bbox of the inputs must produce
ExpectedBbox(b) ==
    CASE b["bbox"] = <<"list", <<0, 30, 200, 230>>>> -> "0,30,200,230"
      [] b["bbox"] = <<"list", <<5, 5, 50, 50>>>> -> "5,5,50,50"
      [] OTHER -> "?"

Running == { k \in 1..Len(calls) : calls[k].status = <<"running">> }
Ended == pc \in {"done", "failed"}

----------------------------------------------------------------------------
(* C1: after attach_picture_children and the save, the output list has the
   length and the block order of the first-pass list, and every block that
   is not a picture or has no bbox is identical to its input. *)
C1_PassThrough ==
    Saved =>
      /\ Len(Output) = Len(firstPass)
      /\ \A i \in 1..Len(firstPass) :
           /\ ~IsPictureBlock(firstPass[i]) => Output[i] = firstPass[i]
           /\ \A k \in (DOMAIN firstPass[i]) \ {PC} :
                k \in DOMAIN Output[i] /\ Output[i][k] = firstPass[i][k]

C1_Witness ==
    /\ Saved
    /\ Len(firstPass) = 2
    /\ IsPictureBlock(firstPass[1]) /\ Len(Returned(1)) > 0
    /\ ~IsPictureBlock(firstPass[2]) /\ "bbox" \in DOMAIN firstPass[2]

(* C2: a picture block whose second-pass result is a non-empty list of
   length N has, in the output, picture-children of length N in the
   returned order; entry j has exactly the keys bbox, text, conf, category,
   source, the first three taken from the j-th returned child (null when
   the child lacks the key), category "PictureText", source "picture-ocr". *)
C2_Children ==
    Saved =>
      \A i \in PictureIdx :
        (Loaded(i) /\ Len(Returned(i)) > 0) =>
          /\ PC \in DOMAIN Output[i]
          /\ Output[i][PC][1] = "list"
          /\ Len(Output[i][PC][2]) = Len(Returned(i))
          /\ \A j \in 1..Len(Returned(i)) :
               LET o == Output[i][PC][2][j]
                   c == Returned(i)[j]
               IN /\ DOMAIN o = {"bbox", "text", "conf", "category", "source"}
                  /\ \A k \in {"bbox", "text", "conf"} :
                       o[k] = IF k \in DOMAIN c THEN c[k] ELSE <<"null">>
                  /\ o["category"] = <<"str", "PictureText">>
                  /\ o["source"] = <<"str", "picture-ocr">>

C2_Witness ==
    /\ Saved
    /\ \E i \in PictureIdx :
         /\ Loaded(i)
         /\ Len(Returned(i)) = 2
         /\ Returned(i)[1] # Returned(i)[2]
         /\ "extra" \in DOMAIN Returned(i)[1]

(* C3, as stated: a picture block whose second-pass result is empty has no
   picture-children key in the output. *)
C3_NoKeyAtAll ==
    Saved =>
      \A i \in PictureIdx :
        (Loaded(i) /\ Len(Returned(i)) = 0) => PC \notin DOMAIN Output[i]

(* C3, amended: a picture block whose second-pass result is empty is
   written out identical to the first-pass block: no picture-children key
   is added and no empty list is written, so the key is there only if the
   first pass already had it, with its value unchanged. *)
C3_NoKeyAdded ==
    Saved =>
      \A i \in PictureIdx :
        (Loaded(i) /\ Len(Returned(i)) = 0) =>
          /\ Output[i] = firstPass[i]
          /\ PC \in DOMAIN Output[i] => Output[i][PC] # <<"list", <<>>>>

C3_Witness ==
    /\ Saved
    /\ \E i \in PictureIdx :
         /\ Loaded(i) /\ Len(Returned(i)) = 0
         /\ PC \notin DOMAIN firstPass[i]

(* C4: once an external invocation has exited non-zero the run is aborted:
   that invocation is the last one (none later, no retry), the final JSON
   is not written, nothing is copied, the outcome is a failure, and the
   program takes no further step. *)
C4_State ==
    \A k \in 1..Len(calls) :
      (calls[k].status[1] = "exit" /\ calls[k].status[2] # 0) =>
        /\ k = Len(calls)
        /\ pc = "failed"
        /\ exitCode = "error"
        /\ ~Saved /\ saves = 0
        /\ copied = {}

C4_Abort == []C4_State /\ [][pc # "failed"]_vars

C4_Witness ==
    /\ pc = "failed"
    /\ Len(calls) = 3
    /\ calls[3].status = <<"exit", 1>>

(* C5, as stated: once the run has completed, _picture_temp does not
   exist. *)
C5_TempGone == pc = "done" => picDir = <<"absent">>

(* C5, amended: once the run has completed, _picture_temp does not exist
   when the removal after the last picture block succeeded, and exists when
   that removal failed; with no picture block the directory is as it was
   before the run. *)
C5_TempGoneIfRemoved ==
    pc = "done" =>
      IF PictureIdx # {}
      THEN (picDir = <<"absent">>) <=> ~rmFailed
      ELSE picDir = picDir0

C5_Witness ==
    /\ pc = "done"
    /\ Cardinality(PictureIdx) = 2
    /\ picDir0 # <<"absent">>
    /\ picDir = <<"absent">>

(* C6: for every picture block whose second pass was started and is over,
   whatever its outcome, the removal of the temporary directory has been
   run; a failed removal does not abort the run. *)
C6_AlwaysRemoved ==
    /\ (pc \in {"loop", "copy", "done", "failed"} /\ Len(calls) >= 1) =>
          removals = Len(calls) - 1
    /\ (rmFailed /\ pc = "loop") => exitCode # "error"

(* C7, as stated: when a second-pass invocation begins, the directory does
   not hold the result.json of a previous block. *)
C7_CleanAtStart ==
    pc = "pic_wait" => ~(picDir[1] = "result" /\ picDir[2] \in 1..(idx - 1))

(* C7, amended: at most one invocation runs at any time and a second pass
   begins only after the removal for every earlier picture block has been
   run; if the latest removal succeeded, the directory holds no result.json
   when the next invocation begins and the children loaded for that block
   are those written by its own invocation. *)
C7_CleanIfRemoved ==
    /\ Cardinality(Running) <= 1
    /\ pc = "pic_wait" =>
         /\ Running = {Len(calls)}
         /\ removals = Len(calls) - 2
         /\ (removals > 0 /\ ~rmFailed) => picDir = <<"empty">>
    /\ (pc = "rmtree" /\ removals > 0 /\ ~rmFailed) =>
         secondPass[idx][2] = idx

C7_Witness ==
    /\ pc = "rmtree"
    /\ removals > 0
    /\ ~rmFailed
    /\ Len(Returned(idx)) > 0

(* C8: after a successful run each of <stem>.md and <stem>.jpg has been
   copied exactly when it exists in <output>/first_pass; a missing one is
   skipped without error and the other is still copied. *)
C8_Artifacts ==
    /\ pc = "copy" =>
         /\ exitCode = "running"
         /\ \A j \in 1..(copyIdx - 1) :
              (Exts[j] \in copied) <=> (Exts[j] \in firstPassFiles)
    /\ pc = "done" => (copied = firstPassFiles /\ exitCode = "ok")

C8_Witness ==
    /\ pc = "done"
    /\ firstPassFiles = {".jpg"}
    /\ copied = {".jpg"}

(* C9: the layout pass comes first; then one second pass per picture block
   with a bbox, in block order, on the same image with that block's bbox
   comma-joined, none for other blocks; an invocation has exited before the
   next begins; the JSON is written once, after every second pass and
   before any copy; a successful run makes 1 + (picture blocks) invocations
   and the program always advances towards its end. *)
C9_Upto ==
    CASE pc \in {"pic_wait", "load_children", "rmtree"} -> idx
      [] pc = "loop" -> idx - 1
      [] pc \in {"copy", "done"} -> Len(firstPass)
      [] OTHER -> 0

C9_State ==
    /\ Len(calls) >= 1 =>
         /\ calls[1].image = "page1.png"
         /\ calls[1].output = "out/first_pass"
         /\ calls[1].args = <<"--mode", "layout_all">>
    /\ \A k \in 1..(Len(calls) - 1) : calls[k].status = <<"exit", 0>>
    /\ pc \in {"pic_wait", "load_children", "rmtree", "loop", "copy", "done"}
         => Len(calls) = 1 + Cardinality(PicturesUpTo(C9_Upto))
    /\ Len(calls) <= 1 + Cardinality(PictureIdx) \/ Len(firstPass) = 0
    /\ \A k \in 1..(Len(calls) - 1) :
         k <= Cardinality(PictureIdx) =>
           LET b == firstPass[KthOf(PictureIdx, k)]
           IN /\ calls[k + 1].image = "page1.png"
              /\ calls[k + 1].output = "_picture_temp"
              /\ calls[k + 1].args =
                   <<"--mode", "prompt_grounding_ocr", "--bbox",
                     ExpectedBbox(b)>>
    /\ saves = (IF pc \in {"copy", "done"} THEN 1 ELSE 0)
    /\ copied # {} => saves = 1
    /\ pc = "done" =>
         /\ Len(calls) = 1 + Cardinality(PictureIdx)
         /\ Running = {}
    /\ ~Ended => ENABLED Next

C9_Rank ==
    CASE pc = "main" -> 4 * MaxBlocks + 10
      [] pc = "first_wait" -> 4 * MaxBlocks + 9
      [] pc = "load_first" -> 4 * MaxBlocks + 8
      [] pc = "loop" -> 4 * (Len(blocks) - idx + 1) + 5
      [] pc = "pic_wait" -> 4 * (Len(blocks) - idx + 1) + 4
      [] pc = "load_children" -> 4 * (Len(blocks) - idx + 1) + 3
      [] pc = "rmtree" -> 4 * (Len(blocks) - idx + 1) + 2
      [] pc = "copy" -> 4 - copyIdx
      [] OTHER -> 0

C9_Sequential == []C9_State /\ [][C9_Rank' < C9_Rank /\ C9_Rank' >= 0]_vars

C9_Witness ==
    /\ pc = "done"
    /\ Len(calls) = 3
    /\ calls[2].args # calls[3].args

(* C10: no key is ever removed from a block and no key other than
   picture-children is changed; on a picture block that already carries
   picture-children, a non-empty second-pass result replaces the value by
   the newly built list and an empty one leaves the old value. *)
C10_KeysKept ==
    \A i \in 1..Len(blocks) :
      /\ DOMAIN firstPass[i] \subseteq DOMAIN blocks[i]
      /\ \A k \in (DOMAIN firstPass[i]) \ {PC} : blocks[i][k] = firstPass[i][k]
      /\ (PC \in DOMAIN firstPass[i] /\ Loaded(i)) =>
           IF Len(Returned(i)) > 0
           THEN /\ blocks[i][PC] # firstPass[i][PC]
                /\ Len(blocks[i][PC][2]) = Len(Returned(i))
                /\ \A j \in 1..Len(Returned(i)) :
                     blocks[i][PC][2][j]["source"] = <<"str", "picture-ocr">>
           ELSE blocks[i][PC] = firstPass[i][PC]
      /\ Saved => Output[i] = blocks[i]

C10_Witness ==
    /\ Saved
    /\ Len(firstPass) = 2
    /\ \A i \in 1..2 : PC \in DOMAIN firstPass[i] /\ Loaded(i)
    /\ Len(Returned(1)) > 0
    /\ Len(Returned(2)) = 0

====
